---- MODULE Spec2Model ----
(***************************************************************************)
(* State machine of the DateRangePicker component                          *)
(* (src/src/components/DateRangePicker.tsx): the pending selection         *)
(* (tempRange), the caller's committed selection (value), the two view     *)
(* cursors (viewDateStart, viewDateEnd), the hover preview (hoverDate) and *)
(* the popover flag (open), driven by the component's event handlers.      *)
(*                                                                         *)
(* A Date is an integer count of ticks: TicksPerDay ticks make a day;      *)
(* month 0 has LongMonthDays days, the other months one day.  Tick 0 of a  *)
(* day is startOfDay, tick TicksPerDay-1 is endOfDay.  null is NoDate.     *)
(* Each action is one handler together with the React effects its state    *)
(* changes trigger (lines 180-195), run to quiescence.  The caller stores  *)
(* every value handed to onChange, as the demo application does.           *)
(***************************************************************************)
EXTENDS Integers, Sequences, FiniteSets, TLC

\* ---------------------------------------------------------------- calendar
\* months with selectable days: 0 .. NumMonths-1
NumMonths == 3
MonthsPerYear == 2
\* month 0 has LongMonthDays days, every other month has one day
LongMonthDays == 2
TicksPerDay == 2
\* the clock day returned by startOfToday(), as a day number
Today == 1
\* days of the neighbouring months shown in a month grid on each side
PadDays == 1

NoDate == 0 - 1

NumDays == LongMonthDays + (NumMonths - 1)
Days == 0 .. (NumDays - 1)
\* months a view cursor may show (one month past the last selectable day)
ViewMonths == 0 .. NumMonths

\* calendar day and month number of a Date; first day and length of a month
DayOf(t) == t \div TicksPerDay
MonthOfDay(d) == IF d < 0 THEN d ELSE IF d < LongMonthDays THEN 0 ELSE d - LongMonthDays + 1
MonthOf(t) == MonthOfDay(DayOf(t))
FirstDay(m) == IF m >= 1 THEN m + LongMonthDays - 1 ELSE m
DaysIn(m) == IF m = 0 THEN LongMonthDays ELSE 1
Min(a, b) == IF a <= b THEN a ELSE b

\* date-fns
startOfDay(t) == DayOf(t) * TicksPerDay
endOfDay(t) == startOfDay(t) + (TicksPerDay - 1)
startOfMonth(t) == FirstDay(MonthOf(t)) * TicksPerDay
endOfMonth(t) == (FirstDay(MonthOf(t)) + DaysIn(MonthOf(t))) * TicksPerDay - 1
addDays(t, n) == t + n * TicksPerDay
\* the same day of the month n months on, clamped to that month's last day,
\* the time of day kept
addMonths(t, n) ==
    LET m == MonthOf(t) + n
        dom == DayOf(t) - FirstDay(MonthOf(t))
    IN  (FirstDay(m) + Min(dom, DaysIn(m) - 1)) * TicksPerDay + (t % TicksPerDay)
isBefore(a, b) == a < b
isAfter(a, b) == a > b
isSameDay(a, b) == startOfDay(a) = startOfDay(b)
isSameMonth(a, b) == MonthOf(a) = MonthOf(b)
startOfToday == Today * TicksPerDay
\* parse(text, displayFormat): a day token yields that day at midnight,
\* anything else an Invalid Date
parse(tok) == IF tok \in Days THEN tok * TicksPerDay ELSE NoDate
isValid(t) == t # NoDate

\* the Date at midnight of day number d
Midnight(d) == d * TicksPerDay

DateRange(s, e) == [startDate |-> s, endDate |-> e]
EmptyRange == DateRange(NoDate, NoDate)

\* ---------------------------------------------------------------- props
editable == TRUE
showClearButton == TRUE
showPresets == TRUE

\* preset lists a caller may supply (PresetRange[].range()): Today, the
\* last two days, this month, the days from today on
GoodPresetRanges ==
    << DateRange(startOfToday, startOfToday),
       DateRange(startOfDay(addDays(endOfDay(startOfToday), 0 - 1)), endOfDay(startOfToday)),
       DateRange(startOfMonth(startOfToday), endOfMonth(startOfMonth(startOfToday))),
       DateRange(startOfToday, endOfDay(Midnight(NumDays - 1))) >>
\* an inverted range, a range without end, a range over all days
OddPresetRanges ==
    << DateRange(addDays(startOfToday, 1), addDays(startOfToday, 0 - 1)),
       DateRange(startOfToday, NoDate),
       DateRange(Midnight(0), endOfDay(Midnight(NumDays - 1))) >>
\* PresetDate[].date()
SinglePresetDates ==
    << startOfToday, addDays(startOfToday, 0 - 1), endOfDay(startOfToday),
       Midnight(NumDays - 1) >>

\* minDate / maxDate a caller may supply: none, or all days but the first
\* and the last
NoBounds == <<NoDate, NoDate>>
InnerBounds == <<endOfDay(Midnight(1)), Midnight(NumDays - 2)>>

\* values the caller may hold (initially, or push later)
PushValues ==
    { EmptyRange,
      DateRange(endOfDay(Midnight(1)), NoDate),
      DateRange(Midnight(0), endOfDay(Midnight(1))),
      DateRange(Midnight(1), endOfDay(Midnight(NumDays - 2))) }

\* text-field contents: the tokens between the '~' separators; a token is
\* a day number, or NoDate for text that is no date
TextTokens == {NoDate, 0, NumDays - 2}
Texts ==
    { <<a>> : a \in TextTokens } \cup
    { <<a, b>> : a \in TextTokens, b \in TextTokens } \cup
    { <<NoDate, NoDate, NoDate>> }

VARIABLES
    singleDatePicker, separateCalendars, autoApply, closeOnSelect,
    minDate, maxDate, presetRanges, presetDates,
    value, tempRange, viewDateStart, viewDateEnd, hoverDate, open,
    tempIsValue, last

props == <<singleDatePicker, separateCalendars, autoApply, closeOnSelect,
           minDate, maxDate, presetRanges, presetDates>>
views == <<viewDateStart, viewDateEnd>>
vars == <<props, value, tempRange, views, hoverDate, open, tempIsValue, last>>

\* the last event handled and whether its handler accepted it
Event(op, ok) == [op |-> op, ok |-> ok]

\* ---------------------------------------------------------------- queries
\* variant: an absent upper bound disables every day
disableDateNeedsMax(day, lo, hi) ==
    \/ (lo # NoDate /\ isBefore(day, startOfDay(lo)))
    \/ hi = NoDate
    \/ isAfter(day, endOfDay(hi))

\* disableDate as a function of the bounds it reads
disableDateFor(day, lo, hi) ==
    \/ (lo # NoDate /\ isBefore(day, startOfDay(lo)))
    \/ (hi # NoDate /\ isAfter(day, endOfDay(hi)))

\* variant: only the lower bound disables
disableDateMinOnly(day) ==
    minDate # NoDate /\ isBefore(day, startOfDay(minDate))

disableDate(day) == disableDateFor(day, minDate, maxDate)

viewDate(calendarIndex) == IF calendarIndex = 0 THEN viewDateStart ELSE viewDateEnd

\* calendars rendered (line 809-810)
Calendars == IF singleDatePicker THEN {0} ELSE {0, 1}

\* the day cells of a month grid, as midnight Dates: the days of the month
\* and PadDays days of the weeks it shares with its neighbours
buildCalendar(month) ==
    { Midnight(d) : d \in
        { x \in Days : /\ Midnight(x) >= startOfMonth(month) - PadDays * TicksPerDay
                       /\ Midnight(x) <= endOfMonth(month) + PadDays * TicksPerDay } }

\* variant: the month shown, not the target month, is tested against min
getCanGoPrevShownMonth(calendarIndex) ==
    IF minDate = NoDate THEN TRUE
    ELSE ~isBefore(endOfMonth(viewDate(calendarIndex)), startOfDay(minDate))

getCanGoPrev(calendarIndex) ==
    IF minDate = NoDate THEN TRUE
    ELSE ~isBefore(endOfMonth(addMonths(viewDate(calendarIndex), 0 - 1)), startOfDay(minDate))

getCanGoNext(calendarIndex) ==
    IF maxDate = NoDate THEN TRUE
    ELSE ~isAfter(startOfMonth(addMonths(viewDate(calendarIndex), 1)), endOfDay(maxDate))

\* variant: the last index that passes the test
findIndexLast(hits) ==
    IF hits = {} THEN 0 ELSE CHOOSE i \in hits : \A j \in hits : i >= j

\* Array.prototype.findIndex over the indices (1-based) that pass the test:
\* the first of them, 0 (the code's -1 / null) if there is none
findIndex(hits) ==
    IF hits = {} THEN 0 ELSE CHOOSE i \in hits : \A j \in hits : i <= j

matchedPresetIndex ==
    IF singleDatePicker
    THEN IF tempRange.startDate = NoDate THEN 0
         ELSE findIndex({ i \in 1 .. Len(presetDates) :
                            isSameDay(presetDates[i], tempRange.startDate) })
    ELSE IF tempRange.startDate = NoDate \/ tempRange.endDate = NoDate THEN 0
         ELSE findIndex({ i \in 1 .. Len(presetRanges) :
                            /\ presetRanges[i].startDate # NoDate
                            /\ presetRanges[i].endDate # NoDate
                            /\ isSameDay(presetRanges[i].startDate, tempRange.startDate)
                            /\ isSameDay(presetRanges[i].endDate, tempRange.endDate) })

\* ---------------------------------------------------------------- effects
\* useEffect [value.startDate, value.endDate] applied to a value v whose
\* Date objects are new; vs / ve are the cursors the handler left
\* variant: the left cursor goes to the start date itself
recenterStartToDate(v, vs) ==
    IF v.startDate # NoDate THEN v.startDate ELSE vs

recenterStart(v, vs) ==
    IF v.startDate # NoDate THEN startOfMonth(v.startDate) ELSE vs

\* variant: the right cursor always follows the end
recenterEndToEnd(v, ve) ==
    IF v.startDate # NoDate /\ v.endDate # NoDate
    THEN startOfMonth(v.endDate) ELSE ve

recenterEnd(v, ve) ==
    IF v.startDate # NoDate
    THEN IF v.endDate # NoDate /\ ~isSameMonth(v.startDate, v.endDate)
         THEN startOfMonth(v.endDate)
         ELSE addMonths(startOfMonth(v.startDate), 1)
    ELSE ve

\* onChange(next) with new Date objects, then both effects
onChange(next, vs, ve) ==
    /\ value' = next
    /\ tempRange' = next
    /\ tempIsValue' = TRUE
    /\ viewDateStart' = recenterStart(next, vs)
    /\ viewDateEnd' = recenterEnd(next, ve)

\* setTempRange(next) alone
setTempRange(next, vs, ve) ==
    /\ value' = value
    /\ tempRange' = next
    /\ tempIsValue' = FALSE
    /\ viewDateStart' = vs
    /\ viewDateEnd' = ve

\* variants: the handlers never hand a value to the caller / always do
stageDraftOnly(next, vs, ve) == setTempRange(next, vs, ve)

stageCommitAlways(next, vs, ve) == onChange(next, vs, ve)

\* the commit policy of the handlers: if (autoApply) onChange(next)
stage(next, vs, ve) ==
    IF autoApply THEN onChange(next, vs, ve) ELSE setTempRange(next, vs, ve)

\* variant: closeOnSelect alone closes the popover
closeIfCloseOnSelect == open' = IF closeOnSelect THEN FALSE ELSE open

\* if (autoApply && closeOnSelect) setOpen(false)
closeIfSelect == open' = IF autoApply /\ closeOnSelect THEN FALSE ELSE open

\* ---------------------------------------------------------------- Init
\* the props of the instances explored.  closeOnSelect is read only under
\* autoApply; presetRanges is read only in range mode.
Config(single, sep, auto, close, bounds, ranges) ==
    [single |-> single, sep |-> sep, auto |-> auto, close |-> close,
     bounds |-> bounds, ranges |-> ranges]
Modes == { <<FALSE, FALSE>>, <<FALSE, TRUE>>, <<TRUE, FALSE>> }
Configs ==
    { Config(m[1], m[2], auto, TRUE, InnerBounds, GoodPresetRanges) :
        m \in Modes, auto \in BOOLEAN }
    \cup
    { Config(m[1], m[2], TRUE, TRUE, NoBounds, GoodPresetRanges) :
        m \in Modes \cup { <<TRUE, TRUE>> } }
    \cup
    { Config(FALSE, sep, TRUE, TRUE, InnerBounds, OddPresetRanges) : sep \in BOOLEAN }
    \cup
    { Config(single, FALSE, TRUE, FALSE, NoBounds, GoodPresetRanges) :
        single \in BOOLEAN }
    \cup
    { Config(TRUE, FALSE, FALSE, TRUE, NoBounds, GoodPresetRanges) }

Init ==
    /\ \E c \in Configs :
        /\ singleDatePicker = c.single
        /\ separateCalendars = c.sep
        /\ autoApply = c.auto
        /\ closeOnSelect = c.close
        /\ minDate = c.bounds[1]
        /\ maxDate = c.bounds[2]
        /\ presetRanges = c.ranges
    /\ presetDates = SinglePresetDates
    /\ value = EmptyRange
    /\ tempRange = value
    /\ tempIsValue = TRUE
    /\ viewDateStart = recenterStart(value, startOfToday)
    /\ viewDateEnd = recenterEnd(value, addMonths(startOfToday, 1))
    /\ hoverDate = NoDate
    /\ open = FALSE
    /\ last = Event("Init", TRUE)

\* ---------------------------------------------------------------- day click
\* variant: the clicked day replaces the calendar's endpoint without a swap
separateClickNoSwap(day, calendarIndex, tr) ==
    IF calendarIndex = 0 THEN DateRange(day, tr.endDate)
    ELSE DateRange(tr.startDate, day)

separateClick(day, calendarIndex, tr) ==
    IF calendarIndex = 0
    THEN IF tr.endDate # NoDate /\ isAfter(day, tr.endDate)
         THEN DateRange(tr.endDate, day)
         ELSE DateRange(day, tr.endDate)
    ELSE IF tr.startDate # NoDate /\ isBefore(day, tr.startDate)
         THEN DateRange(day, tr.startDate)
         ELSE DateRange(tr.startDate, day)

\* variants: the second click is stored as the end without a swap / is
\* dropped
freeSecondClickNoSwap(day, start) == DateRange(start, day)

freeSecondClickKeepsStart(day, start) == DateRange(start, start)

freeSecondClick(day, start) ==
    IF isBefore(day, start) THEN DateRange(day, start) ELSE DateRange(start, day)

handleDayClick(day, calendarIndex) ==
    /\ open
    /\ calendarIndex \in Calendars
    /\ day \in buildCalendar(viewDate(calendarIndex))
    /\ UNCHANGED props
    /\ IF disableDate(day)
       THEN /\ UNCHANGED <<value, tempRange, tempIsValue, views, hoverDate, open>>
            /\ last' = Event("DayClick", FALSE)
       ELSE /\ last' = Event("DayClick", TRUE)
            /\ IF singleDatePicker
               THEN /\ stage(DateRange(day, day), viewDateStart, viewDateEnd)
                    /\ closeIfSelect
                    /\ UNCHANGED hoverDate
               ELSE IF separateCalendars
               THEN LET newRange == separateClick(day, calendarIndex, tempRange)
                    IN  /\ UNCHANGED hoverDate
                        /\ IF autoApply /\ newRange.startDate # NoDate
                                        /\ newRange.endDate # NoDate
                           THEN onChange(newRange, viewDateStart, viewDateEnd) /\ closeIfSelect
                           ELSE /\ setTempRange(newRange, viewDateStart, viewDateEnd)
                                /\ UNCHANGED open
               ELSE IF \/ tempRange.startDate = NoDate
                       \/ (tempRange.startDate # NoDate /\ tempRange.endDate # NoDate)
               THEN /\ setTempRange(DateRange(day, NoDate), viewDateStart, viewDateEnd)
                    /\ hoverDate' = NoDate
                    /\ UNCHANGED open
               ELSE /\ stage(freeSecondClick(day, tempRange.startDate),
                             viewDateStart, viewDateEnd)
                    /\ closeIfSelect
                    /\ UNCHANGED hoverDate

\* ---------------------------------------------------------------- text entry
\* variant: only the first Date of the text is tested against the bounds
textAcceptedStartOnly(text) ==
    IF singleDatePicker
    THEN /\ Len(text) = 1
         /\ isValid(parse(text[1]))
    ELSE /\ Len(text) = 2
         /\ isValid(parse(text[1]))
         /\ isValid(parse(text[2]))
         /\ ~disableDate(parse(text[1]))

\* the guard of applyText: the text yields the Dates it needs and none of
\* them is disabled
textAccepted(text) ==
    IF singleDatePicker
    THEN /\ Len(text) = 1
         /\ isValid(parse(text[1]))
         /\ ~disableDate(parse(text[1]))
    ELSE /\ Len(text) = 2
         /\ isValid(parse(text[1]))
         /\ isValid(parse(text[2]))
         /\ ~disableDate(parse(text[1]))
         /\ ~disableDate(parse(text[2]))

\* the range applyText builds from two parsed Dates
textRange(sParsed, eParsed) ==
    IF isAfter(startOfDay(sParsed), endOfDay(eParsed))
    THEN DateRange(startOfDay(eParsed), endOfDay(sParsed))
    ELSE DateRange(startOfDay(sParsed), endOfDay(eParsed))

applyText(text) ==
    /\ editable
    /\ UNCHANGED <<props, hoverDate, open>>
    /\ last' = Event("ApplyText", textAccepted(text))
    /\ IF ~textAccepted(text)
       THEN UNCHANGED <<value, tempRange, tempIsValue, views>>
       ELSE IF singleDatePicker
       THEN LET parsed == parse(text[1])
            IN  stage(DateRange(parsed, parsed), startOfMonth(parsed),
                      addMonths(startOfMonth(parsed), 1))
       ELSE LET next == textRange(parse(text[1]), parse(text[2]))
            IN  stage(next, startOfMonth(next.startDate),
                      startOfMonth(addMonths(next.startDate, 1)))

\* ---------------------------------------------------------------- presets
\* variant: the preset supplies the start only
applyPresetStartOnly(i) ==
    /\ open /\ showPresets /\ ~singleDatePicker
    /\ i \in 1 .. Len(presetRanges)
    /\ UNCHANGED <<props, hoverDate>>
    /\ last' = Event("ApplyPreset", TRUE)
    /\ stage(DateRange(presetRanges[i].startDate, NoDate), viewDateStart, viewDateEnd)
    /\ closeIfSelect

applyPreset(i) ==
    /\ open /\ showPresets /\ ~singleDatePicker
    /\ i \in 1 .. Len(presetRanges)
    /\ UNCHANGED <<props, hoverDate>>
    /\ last' = Event("ApplyPreset", TRUE)
    /\ stage(presetRanges[i], viewDateStart, viewDateEnd)
    /\ closeIfSelect

applyPresetDate(i) ==
    /\ open /\ showPresets /\ singleDatePicker
    /\ i \in 1 .. Len(presetDates)
    /\ UNCHANGED <<props, hoverDate>>
    /\ last' = Event("ApplyPreset", TRUE)
    /\ LET d == presetDates[i]
       IN  stage(DateRange(d, d), startOfMonth(d), addMonths(startOfMonth(d), 1))
    /\ closeIfSelect

\* ---------------------------------------------------------------- actions row
\* onChange(tempRange): the effect on the cursors runs only if tempRange
\* holds Date objects other than those of value
handleApply ==
    /\ open /\ ~autoApply
    /\ UNCHANGED <<props, hoverDate>>
    /\ last' = Event("Apply", TRUE)
    /\ value' = tempRange
    /\ tempRange' = tempRange
    /\ tempIsValue' = TRUE
    /\ viewDateStart' = IF tempIsValue THEN viewDateStart
                        ELSE recenterStart(tempRange, viewDateStart)
    /\ viewDateEnd' = IF tempIsValue THEN viewDateEnd
                      ELSE recenterEnd(tempRange, viewDateEnd)
    /\ open' = FALSE

\* variant: Cancel restores the end of the draft only
handleCancelKeepsStart ==
    /\ open /\ ~autoApply
    /\ UNCHANGED <<props, hoverDate, value, views>>
    /\ last' = Event("Cancel", TRUE)
    /\ tempRange' = DateRange(tempRange.startDate, value.endDate)
    /\ tempIsValue' = TRUE
    /\ open' = FALSE

handleCancel ==
    /\ open /\ ~autoApply
    /\ UNCHANGED <<props, hoverDate, value, views>>
    /\ last' = Event("Cancel", TRUE)
    /\ tempRange' = value
    /\ tempIsValue' = TRUE
    /\ open' = FALSE

\* the clear button beside the trigger (lines 762-776)
clearTrigger ==
    /\ showClearButton
    /\ value.startDate # NoDate \/ value.endDate # NoDate
    /\ UNCHANGED <<props, hoverDate, open>>
    /\ last' = Event("Clear", TRUE)
    /\ onChange(EmptyRange, viewDateStart, viewDateEnd)

\* the Clear button of the popover (lines 816-828, 839-849)
clearPopover ==
    /\ open /\ showClearButton
    /\ UNCHANGED <<props, hoverDate>>
    /\ last' = Event("Clear", TRUE)
    /\ onChange(EmptyRange, viewDateStart, viewDateEnd)
    /\ open' = FALSE

\* ---------------------------------------------------------------- popover
\* variant: the trigger toggles the popover and keeps the draft
toggleOpenKeepsDraft ==
    /\ UNCHANGED <<props, hoverDate, value, views, tempRange, tempIsValue>>
    /\ last' = Event("Toggle", TRUE)
    /\ open' = ~open

\* trigger click: setOpen(prev => !prev), then useEffect [value, open]
toggleOpen ==
    /\ UNCHANGED <<props, hoverDate, value, views>>
    /\ last' = Event("Toggle", TRUE)
    /\ open' = ~open
    /\ tempRange' = value
    /\ tempIsValue' = TRUE

\* outside mousedown / Escape: setOpen(false); nothing changes when closed
outsideClose ==
    /\ open
    /\ UNCHANGED <<props, hoverDate, value, views>>
    /\ last' = Event("OutsideClose", TRUE)
    /\ open' = FALSE
    /\ tempRange' = value
    /\ tempIsValue' = TRUE

\* the caller re-renders with a new value (new Date objects): both effects
callerPush(v) ==
    /\ UNCHANGED <<props, hoverDate, open>>
    /\ last' = Event("CallerPush", TRUE)
    /\ onChange(v, viewDateStart, viewDateEnd)

\* ---------------------------------------------------------------- hover
\* the day cells the pointer is moved over
HoverDays == {startOfToday}

\* variant: in free-click mode the day entered is stored as the draft's end
mouseEnterStagesEnd(day) ==
    /\ open
    /\ day \in HoverDays
    /\ \E c \in Calendars : day \in buildCalendar(viewDate(c))
    /\ UNCHANGED <<props, value, tempIsValue, views, open>>
    /\ last' = Event("MouseEnter", TRUE)
    /\ hoverDate' = IF ~singleDatePicker /\ ~separateCalendars THEN day ELSE hoverDate
    /\ tempRange' = IF ~singleDatePicker /\ ~separateCalendars
                    THEN DateRange(tempRange.startDate, day) ELSE tempRange

\* variant: entering a day cell sets the preview in every mode
mouseEnterAnyMode(day) ==
    /\ open
    /\ day \in HoverDays
    /\ \E c \in Calendars : day \in buildCalendar(viewDate(c))
    /\ UNCHANGED <<props, value, tempRange, tempIsValue, views, open>>
    /\ last' = Event("MouseEnter", TRUE)
    /\ hoverDate' = day

mouseEnter(day) ==
    /\ open
    /\ day \in HoverDays
    /\ \E c \in Calendars : day \in buildCalendar(viewDate(c))
    /\ UNCHANGED <<props, value, tempRange, tempIsValue, views, open>>
    /\ last' = Event("MouseEnter", TRUE)
    /\ hoverDate' = IF ~singleDatePicker /\ ~separateCalendars THEN day ELSE hoverDate

\* variant: leaving a day cell does nothing
mouseLeaveNoOp ==
    /\ open
    /\ UNCHANGED <<props, value, tempRange, tempIsValue, views, open, hoverDate>>
    /\ last' = Event("MouseLeave", TRUE)

mouseLeave ==
    /\ open
    /\ UNCHANGED <<props, value, tempRange, tempIsValue, views, open>>
    /\ last' = Event("MouseLeave", TRUE)
    /\ hoverDate' = IF ~singleDatePicker THEN NoDate ELSE hoverDate

\* ---------------------------------------------------------------- navigation
\* variant: the arrow moves its own cursor only, with no ordering test
prevViewsNoPin(calendarIndex) ==
    IF ~getCanGoPrev(calendarIndex) THEN <<viewDateStart, viewDateEnd, FALSE>>
    ELSE IF calendarIndex = 0
    THEN <<addMonths(viewDateStart, 0 - 1), viewDateEnd, TRUE>>
    ELSE <<viewDateStart, addMonths(viewDateEnd, 0 - 1), TRUE>>

\* <<viewDateStart, viewDateEnd, moved>> after handlePrev of a calendar
prevViews(calendarIndex) ==
    IF ~getCanGoPrev(calendarIndex) THEN <<viewDateStart, viewDateEnd, FALSE>>
    ELSE IF calendarIndex = 0
    THEN LET newStart == addMonths(viewDateStart, 0 - 1)
         IN  IF separateCalendars /\ tempRange.endDate # NoDate
             THEN IF isBefore(startOfMonth(newStart), startOfMonth(tempRange.endDate))
                  THEN <<newStart, viewDateEnd, TRUE>>
                  ELSE <<viewDateStart, viewDateEnd, FALSE>>
             ELSE IF ~singleDatePicker /\ ~separateCalendars
             THEN <<newStart, addMonths(newStart, 1), TRUE>>
             ELSE <<newStart, viewDateEnd, TRUE>>
    ELSE LET newEnd == addMonths(viewDateEnd, 0 - 1)
         IN  IF separateCalendars /\ tempRange.startDate # NoDate
             THEN IF isAfter(startOfMonth(newEnd), startOfMonth(tempRange.startDate))
                  THEN <<viewDateStart, newEnd, TRUE>>
                  ELSE <<viewDateStart, viewDateEnd, FALSE>>
             ELSE IF ~singleDatePicker /\ ~separateCalendars
             THEN IF ~isBefore(startOfMonth(newEnd),
                               addMonths(startOfMonth(viewDateStart), 1))
                  THEN <<addMonths(newEnd, 0 - 1), newEnd, TRUE>>
                  ELSE <<viewDateStart, viewDateEnd, FALSE>>
             ELSE <<viewDateStart, newEnd, TRUE>>

\* variant: forward paging has no ordering test
nextViewsNoCheck(calendarIndex) ==
    IF ~getCanGoNext(calendarIndex) THEN <<viewDateStart, viewDateEnd, FALSE>>
    ELSE IF calendarIndex = 0
    THEN LET newStart == addMonths(viewDateStart, 1)
         IN  IF ~singleDatePicker /\ ~separateCalendars
             THEN <<newStart, addMonths(newStart, 1), TRUE>>
             ELSE <<newStart, viewDateEnd, TRUE>>
    ELSE LET newEnd == addMonths(viewDateEnd, 1)
         IN  IF ~singleDatePicker /\ ~separateCalendars
             THEN <<addMonths(newEnd, 0 - 1), newEnd, TRUE>>
             ELSE <<viewDateStart, newEnd, TRUE>>

nextViews(calendarIndex) ==
    IF ~getCanGoNext(calendarIndex) THEN <<viewDateStart, viewDateEnd, FALSE>>
    ELSE IF calendarIndex = 0
    THEN LET newStart == addMonths(viewDateStart, 1)
         IN  IF separateCalendars /\ tempRange.endDate # NoDate
             THEN IF isBefore(startOfMonth(newStart), startOfMonth(tempRange.endDate))
                  THEN <<newStart, viewDateEnd, TRUE>>
                  ELSE <<viewDateStart, viewDateEnd, FALSE>>
             ELSE IF ~singleDatePicker /\ ~separateCalendars
             THEN IF isBefore(startOfMonth(newStart), startOfMonth(viewDateEnd))
                  THEN <<newStart, addMonths(newStart, 1), TRUE>>
                  ELSE <<viewDateStart, viewDateEnd, FALSE>>
             ELSE <<newStart, viewDateEnd, TRUE>>
    ELSE LET newEnd == addMonths(viewDateEnd, 1)
         IN  IF separateCalendars /\ tempRange.startDate # NoDate
             THEN IF isAfter(startOfMonth(newEnd), startOfMonth(tempRange.startDate))
                  THEN <<viewDateStart, newEnd, TRUE>>
                  ELSE <<viewDateStart, viewDateEnd, FALSE>>
             ELSE IF ~singleDatePicker /\ ~separateCalendars
             THEN <<addMonths(newEnd, 0 - 1), newEnd, TRUE>>
             ELSE <<viewDateStart, newEnd, TRUE>>

\* the model shows the months of ViewMonths only
InView(vs, ve) == MonthOf(vs) \in ViewMonths /\ MonthOf(ve) \in ViewMonths

handlePrev(calendarIndex) ==
    /\ open
    /\ calendarIndex \in Calendars
    /\ InView(prevViews(calendarIndex)[1], prevViews(calendarIndex)[2])
    /\ UNCHANGED <<props, value, tempRange, tempIsValue, hoverDate, open>>
    /\ last' = Event("Prev", prevViews(calendarIndex)[3])
    /\ viewDateStart' = prevViews(calendarIndex)[1]
    /\ viewDateEnd' = prevViews(calendarIndex)[2]

handleNext(calendarIndex) ==
    /\ open
    /\ calendarIndex \in Calendars
    /\ InView(nextViews(calendarIndex)[1], nextViews(calendarIndex)[2])
    /\ UNCHANGED <<props, value, tempRange, tempIsValue, hoverDate, open>>
    /\ last' = Event("Next", nextViews(calendarIndex)[3])
    /\ viewDateStart' = nextViews(calendarIndex)[1]
    /\ viewDateEnd' = nextViews(calendarIndex)[2]

\* variant: no option is disabled
isDisabledNever(calendarIndex, testDate) == FALSE

\* isDisabled of a year / month option whose first day is testDate
isDisabled(calendarIndex, testDate) ==
    IF singleDatePicker THEN FALSE
    ELSE IF separateCalendars
    THEN IF calendarIndex = 0
         THEN /\ tempRange.endDate # NoDate
              /\ ~isBefore(startOfMonth(testDate), startOfMonth(tempRange.endDate))
         ELSE /\ tempRange.startDate # NoDate
              /\ ~isAfter(startOfMonth(testDate), startOfMonth(tempRange.startDate))
    ELSE IF calendarIndex = 0
         THEN ~isBefore(startOfMonth(testDate), startOfMonth(viewDateEnd))
         ELSE ~isAfter(startOfMonth(testDate), startOfMonth(viewDateStart))

\* the options of the two dropdowns of a calendar: the shown month in
\* another year, or another month of the shown year
dropdownOptions(calendarIndex) ==
    { Midnight(FirstDay(m)) : m \in
        { x \in ViewMonths :
            \/ x % MonthsPerYear = MonthOf(viewDate(calendarIndex)) % MonthsPerYear
            \/ x \div MonthsPerYear = MonthOf(viewDate(calendarIndex)) \div MonthsPerYear } }

\* click on a year / month option: handleMonthYearChange unless isDisabled
handleMonthYearChange(calendarIndex, newDate) ==
    /\ open
    /\ calendarIndex \in Calendars
    /\ newDate \in dropdownOptions(calendarIndex)
    /\ UNCHANGED <<props, value, tempRange, tempIsValue, hoverDate, open>>
    /\ last' = Event("Jump", ~isDisabled(calendarIndex, newDate))
    /\ IF isDisabled(calendarIndex, newDate)
       THEN UNCHANGED views
       ELSE IF calendarIndex = 0
       THEN viewDateStart' = startOfMonth(newDate) /\ UNCHANGED viewDateEnd
       ELSE viewDateEnd' = startOfMonth(newDate) /\ UNCHANGED viewDateStart

\* ---------------------------------------------------------------- Next
MidnightDays == { Midnight(d) : d \in Days }
MonthStarts == { Midnight(FirstDay(m)) : m \in ViewMonths }

\* events of every instance
NextCommon ==
    \/ \E day \in MidnightDays, calendarIndex \in {0, 1} :
          handleDayClick(day, calendarIndex)
    \/ \E text \in Texts : applyText(text)
    \/ clearTrigger
    \/ clearPopover
    \/ toggleOpen
    \/ outsideClose
    \/ \E v \in PushValues : callerPush(v)
    \/ \E day \in MidnightDays : mouseEnter(day)
    \/ mouseLeave
    \/ \E calendarIndex \in {0, 1} : handlePrev(calendarIndex)
    \/ \E calendarIndex \in {0, 1} : handleNext(calendarIndex)
    \/ \E calendarIndex \in {0, 1}, newDate \in MonthStarts :
          handleMonthYearChange(calendarIndex, newDate)

PresetRangeClick == \E i \in 1 .. Len(presetRanges) : applyPreset(i)
PresetDateClick == \E i \in 1 .. Len(presetDates) : applyPresetDate(i)

Next ==
    \/ NextCommon
    \/ PresetRangeClick
    \/ PresetDateClick
    \/ handleApply
    \/ handleCancel

\* every instance
Spec == Init /\ [][Next]_vars

\* single-date instances
NextSingle == NextCommon \/ PresetDateClick \/ handleApply \/ handleCancel
InitSingle == Init /\ singleDatePicker = TRUE
SpecSingle == InitSingle /\ [][NextSingle]_vars

\* range instances, free-click (Linked) and per-calendar (Independent)
NextRange == NextCommon \/ PresetRangeClick \/ handleApply \/ handleCancel
InitFree == Init /\ singleDatePicker = FALSE /\ separateCalendars = FALSE
SpecFree == InitFree /\ [][NextRange]_vars
InitSep == Init /\ singleDatePicker = FALSE /\ separateCalendars = TRUE
SpecSep == InitSep /\ [][NextRange]_vars

\* instances with autoApply on (no Apply / Cancel row) and off
NextAuto == NextCommon \/ PresetRangeClick \/ PresetDateClick
InitAuto == Init /\ autoApply = TRUE
SpecAuto == InitAuto /\ [][NextAuto]_vars
InitManual == Init /\ autoApply = FALSE
SpecManual == InitManual /\ [][Next]_vars

\* ================================================================ properties
\* vocabulary of the statements below
Complete(r) == r.startDate # NoDate /\ r.endDate # NoDate
Ordered(r) == Complete(r) => DayOf(r.startDate) <= DayOf(r.endDate)
CalDay(t) == IF t = NoDate THEN NoDate ELSE DayOf(t)
ByDay(r) == <<CalDay(r.startDate), CalDay(r.endDate)>>
RangeMode == ~singleDatePicker
FreeClick == ~singleDatePicker /\ ~separateCalendars
PerCalendar == ~singleDatePicker /\ separateCalendars
PresetsOrdered == \A i \in 1 .. Len(presetRanges) : Ordered(presetRanges[i])
\* a day outside the bounds, by calendar day
OutOfBounds(day) ==
    \/ (minDate # NoDate /\ DayOf(day) < DayOf(minDate))
    \/ (maxDate # NoDate /\ DayOf(day) > DayOf(maxDate))

C2_DisabledClickIsNoOp ==
    [][\A day \in MidnightDays, calendarIndex \in {0, 1} :
          (last'.op = "DayClick" /\ OutOfBounds(day)
             /\ handleDayClick(day, calendarIndex))
          => UNCHANGED <<tempRange, value, views, hoverDate>>]_vars

\* a disabled day was clicked while a pending start was chosen
C2_Witness ==
    /\ last = Event("DayClick", FALSE)
    /\ tempRange.startDate # NoDate
    /\ tempRange.endDate = NoDate
    /\ FreeClick

\* ---------------------------------------------------------------- C3
\* C3: with autoApply on and a caller that stores what it is handed, in
\* every state where the pending selection is complete the committed
\* selection equals it; and a day click that leaves the Range pending
\* selection incomplete commits nothing.
C3_AutoCommitKeepsEqual ==
    /\ []((autoApply /\ Complete(tempRange)) => value = tempRange)
    /\ [][(autoApply /\ RangeMode /\ last'.op = "DayClick"
             /\ ~Complete(tempRange')) => value' = value]_vars

\* a day click completed a range under autoApply, and it was committed
C3_Witness ==
    /\ autoApply /\ RangeMode
    /\ last = Event("DayClick", TRUE)
    /\ Complete(tempRange)
    /\ value = tempRange

\* ---------------------------------------------------------------- C4
\* C4 (as stated): with autoApply off, the committed selection changes only
\* in the step of an explicit Apply (the caller's own pushes aside).
\* The two Clear buttons hand the empty selection to the caller at once.
C4_AsStated ==
    [][(~autoApply /\ value' # value /\ last'.op # "CallerPush")
          => last'.op = "Apply"]_vars

\* C4 (amended): with autoApply off, the committed selection changes only
\* in the step of an explicit Apply or of a Clear button (the caller's own
\* pushes aside): no click, text entry, preset, navigation, hover or
\* Cancel changes it.
C4_OnlyApplyOrClearCommits ==
    [][(~autoApply /\ value' # value /\ last'.op # "CallerPush")
          => last'.op \in {"Apply", "Clear"}]_vars

\* Apply has committed a complete draft with autoApply off
C4_Witness ==
    /\ ~autoApply
    /\ last = Event("Apply", TRUE)
    /\ Complete(value)

\* ---------------------------------------------------------------- C5
\* C5: Cancel makes the pending selection equal to the committed one,
\* both endpoints at once, and leaves the committed selection unchanged,
\* whatever the pending selection was.
C5_CancelRestores ==
    [][last'.op = "Cancel" => (tempRange' = value /\ value' = value)]_vars

\* Cancel was pressed in Range mode while a range was committed
C5_Witness ==
    /\ last = Event("Cancel", TRUE)
    /\ RangeMode
    /\ Complete(value)
    /\ tempRange = value

\* ---------------------------------------------------------------- C6
\* C6: in Range free-click mode (Linked cursors), with presets that all
\* produce start <= end and a caller that only pushes ordered ranges, the
\* right cursor's month is strictly after the left cursor's month in
\* every reachable state.
C6_LinkedRightAfterLeft ==
    (FreeClick /\ PresetsOrdered) => MonthOf(viewDateEnd) > MonthOf(viewDateStart)

\* a quick-jump has moved one cursor so that the two are not adjacent
C6_Witness ==
    /\ FreeClick /\ PresetsOrdered
    /\ last = Event("Jump", TRUE)
    /\ MonthOf(viewDateEnd) > MonthOf(viewDateStart) + 1

\* ---------------------------------------------------------------- C7
\* C7: in Range free-click mode an accepted click on day d, when the
\* pending selection has no start or has both endpoints, sets the pending
\* selection to {d, none} and commits nothing; when it has a start s and
\* no end, it sets it to {min(s, d), max(s, d)} by calendar day.
C7_FreeClickFunction ==
    [][\A day \in MidnightDays, calendarIndex \in {0, 1} :
          (last'.op = "DayClick" /\ FreeClick /\ ~OutOfBounds(day)
             /\ handleDayClick(day, calendarIndex))
          => IF tempRange.startDate = NoDate \/ Complete(tempRange)
             THEN tempRange' = DateRange(day, NoDate) /\ value' = value
             ELSE ByDay(tempRange') =
                    IF DayOf(day) < DayOf(tempRange.startDate)
                    THEN <<DayOf(day), DayOf(tempRange.startDate)>>
                    ELSE <<DayOf(tempRange.startDate), DayOf(day)>>]_vars

\* a second click earlier than the chosen start has been stored
C7_Witness ==
    /\ FreeClick
    /\ last = Event("DayClick", TRUE)
    /\ Complete(tempRange)
    /\ ~autoApply
    /\ DayOf(tempRange.startDate) < DayOf(tempRange.endDate)

\* ---------------------------------------------------------------- C8
\* C8: in Range per-calendar mode an accepted click on day d in the left
\* calendar, with pending end e, sets the pending selection to {d, e} if e
\* is unset or d <= e, and to {e, d} otherwise; in the right calendar,
\* with pending start s, to {s, d} if s is unset or d >= s, and to {d, s}
\* otherwise (by calendar day).
C8_PerCalendarFunction ==
    [][\A day \in MidnightDays, calendarIndex \in {0, 1} :
          (last'.op = "DayClick" /\ PerCalendar /\ ~OutOfBounds(day)
             /\ handleDayClick(day, calendarIndex))
          => ByDay(tempRange') =
               IF calendarIndex = 0
               THEN IF tempRange.endDate = NoDate
                       \/ DayOf(day) <= DayOf(tempRange.endDate)
                    THEN <<DayOf(day), CalDay(tempRange.endDate)>>
                    ELSE <<DayOf(tempRange.endDate), DayOf(day)>>
               ELSE IF tempRange.startDate = NoDate
                       \/ DayOf(day) >= DayOf(tempRange.startDate)
                    THEN <<CalDay(tempRange.startDate), DayOf(day)>>
                    ELSE <<DayOf(day), DayOf(tempRange.startDate)>>]_vars

\* a per-calendar click has left an end with no start
C8_Witness ==
    /\ PerCalendar
    /\ last = Event("DayClick", TRUE)
    /\ tempRange.startDate = NoDate
    /\ tempRange.endDate # NoDate

\* ---------------------------------------------------------------- C9
\* C9: in Single mode an accepted day click sets both endpoints of the
\* pending selection to the clicked day, and with autoApply on commits it
\* in the same step.
C9_SingleClick ==
    [][\A day \in MidnightDays :
          (last'.op = "DayClick" /\ singleDatePicker /\ ~OutOfBounds(day)
             /\ handleDayClick(day, 0))
          => /\ tempRange' = DateRange(day, day)
             /\ autoApply => value' = DateRange(day, day)]_vars

\* a day was clicked and committed in Single mode
C9_Witness ==
    /\ singleDatePicker /\ autoApply
    /\ last = Event("DayClick", TRUE)
    /\ value = tempRange
    /\ Complete(value)

\* ---------------------------------------------------------------- C10
\* the text is rejected: in Range mode it does not yield two parseable
\* dates or one of them is disabled; in Single mode the date is
\* unparseable or disabled
TextRejected(text) ==
    IF singleDatePicker
    THEN ~(/\ Len(text) = 1
           /\ text[1] \in Days
           /\ ~OutOfBounds(Midnight(text[1])))
    ELSE ~(/\ Len(text) = 2
           /\ text[1] \in Days
           /\ text[2] \in Days
           /\ ~OutOfBounds(Midnight(text[1]))
           /\ ~OutOfBounds(Midnight(text[2])))

\* C10: a text entry is accepted only as a whole: when it is rejected
\* the pending selection, the committed selection and both cursors are
\* unchanged and nothing is committed; no single endpoint is stored.
C10_RejectedTextIsNoOp ==
    [][\A text \in Texts :
          (last'.op = "ApplyText" /\ TextRejected(text) /\ applyText(text))
          => UNCHANGED <<tempRange, value, views>>]_vars

\* a text was rejected while a selection was committed
C10_Witness ==
    /\ last = Event("ApplyText", FALSE)
    /\ RangeMode
    /\ Complete(value)

\* ---------------------------------------------------------------- C11
\* C11: under the Linked policy (Range free-click), immediately after
\* every accepted arrow page, on either calendar and in either direction,
\* the right cursor's month is exactly the left cursor's month plus one.
C11_PagePinsOther ==
    [][(FreeClick /\ last'.op \in {"Prev", "Next"} /\ last'.ok)
          => MonthOf(viewDateEnd') = MonthOf(viewDateStart') + 1]_vars

\* the right calendar was paged forward and the left cursor followed
C11_Witness ==
    /\ FreeClick
    /\ last = Event("Next", TRUE)
    /\ MonthOf(viewDateStart) >= 2
    /\ MonthOf(viewDateEnd) = MonthOf(viewDateStart) + 1

\* ---------------------------------------------------------------- C12
Unbounded == minDate = NoDate /\ maxDate = NoDate

\* C12: under the Linked policy with no bounds, paging the left calendar
\* forward is refused exactly when left + 1 month >= right, paging the
\* right calendar backward exactly when right - 1 month <= left, paging
\* the left calendar backward or the right forward is never refused;
\* a refused page leaves both cursors unchanged.
C12_LinkedRefusals ==
    [][\A calendarIndex \in {0, 1} :
          /\ (last'.op = "Next" /\ FreeClick /\ Unbounded
                /\ handleNext(calendarIndex))
             => /\ ~last'.ok <=> (/\ calendarIndex = 0
                                  /\ MonthOf(viewDateStart) + 1 >= MonthOf(viewDateEnd))
                /\ ~last'.ok => UNCHANGED views
          /\ (last'.op = "Prev" /\ FreeClick /\ Unbounded
                /\ handlePrev(calendarIndex))
             => /\ ~last'.ok <=> (/\ calendarIndex = 1
                                  /\ MonthOf(viewDateEnd) - 1 <= MonthOf(viewDateStart))
                /\ ~last'.ok => UNCHANGED views]_vars

\* a forward page of the left calendar was refused, no bounds being set
C12_Witness ==
    /\ FreeClick /\ Unbounded
    /\ last = Event("Next", FALSE)

\* ---------------------------------------------------------------- C13
\* C13: under the Independent policy (Range per-calendar) with no bounds,
\* an arrow page of the left calendar to month m is accepted iff the
\* pending end is unset or m is strictly before its month, and one of the
\* right calendar iff the pending start is unset or m is strictly after
\* its month; the other cursor is neither consulted nor moved.
C13_IndependentPaging ==
    [][\A calendarIndex \in {0, 1}, step \in {0 - 1, 1} :
          (/\ last'.op = (IF step = 1 THEN "Next" ELSE "Prev")
           /\ PerCalendar /\ Unbounded
           /\ IF step = 1 THEN handleNext(calendarIndex)
                          ELSE handlePrev(calendarIndex))
          => LET m == MonthOf(viewDate(calendarIndex)) + step
                 accepted ==
                    IF calendarIndex = 0
                    THEN tempRange.endDate = NoDate
                         \/ m < MonthOf(tempRange.endDate)
                    ELSE tempRange.startDate = NoDate
                         \/ m > MonthOf(tempRange.startDate)
             IN  /\ last'.ok <=> accepted
                 /\ IF calendarIndex = 0
                    THEN /\ viewDateEnd' = viewDateEnd
                         /\ MonthOf(viewDateStart') =
                              IF accepted THEN m ELSE MonthOf(viewDateStart)
                    ELSE /\ viewDateStart' = viewDateStart
                         /\ MonthOf(viewDateEnd') =
                              IF accepted THEN m ELSE MonthOf(viewDateEnd)]_vars

\* a page of the left calendar was refused because of the pending end
C13_Witness ==
    /\ PerCalendar /\ Unbounded
    /\ last \in {Event("Next", FALSE), Event("Prev", FALSE)}
    /\ tempRange.endDate # NoDate
    /\ MonthOf(viewDateStart) >= MonthOf(tempRange.endDate) - 1

\* ---------------------------------------------------------------- C14
\* C14: whenever the caller pushes a committed selection whose start is
\* set, in every mode and whatever the cursors were, the left cursor
\* becomes the month of the start and the right cursor the month of the
\* end if the end is set and in another month than the start, otherwise
\* the month after the start's; a pushed selection without a start
\* leaves both cursors unchanged.
C14_PushRecenters ==
    [][\A v \in PushValues :
          (last'.op = "CallerPush" /\ callerPush(v))
          => IF v.startDate # NoDate
             THEN /\ viewDateStart' = Midnight(FirstDay(MonthOf(v.startDate)))
                  /\ viewDateEnd' =
                       IF /\ v.endDate # NoDate
                          /\ MonthOf(v.endDate) # MonthOf(v.startDate)
                       THEN Midnight(FirstDay(MonthOf(v.endDate)))
                       ELSE Midnight(FirstDay(MonthOf(v.startDate) + 1))
             ELSE UNCHANGED views]_vars

\* a range lying within one month was pushed
C14_Witness ==
    /\ last = Event("CallerPush", TRUE)
    /\ Complete(value)
    /\ MonthOf(value.startDate) = MonthOf(value.endDate)
    /\ MonthOf(viewDateEnd) = MonthOf(value.startDate) + 1

\* ---------------------------------------------------------------- C15
\* whether the arrow of a calendar that lands step months away is refused,
\* the bounds allowing the page
pageRefused(calendarIndex, step) ==
    IF step = 1 THEN ~nextViews(calendarIndex)[3] ELSE ~prevViews(calendarIndex)[3]
boundsAllowPage(calendarIndex, step) ==
    IF step = 1 THEN getCanGoNext(calendarIndex) ELSE getCanGoPrev(calendarIndex)
\* the quick-jump option of the month step months away is disabled iff the
\* page landing there is refused
JumpAsPage ==
    \A calendarIndex \in {0, 1}, step \in {0 - 1, 1} :
        boundsAllowPage(calendarIndex, step)
        => (isDisabled(calendarIndex,
                       Midnight(FirstDay(MonthOf(viewDate(calendarIndex)) + step)))
            <=> pageRefused(calendarIndex, step))

MonthOutOfBounds(t) ==
    \A d \in FirstDay(MonthOf(t)) .. (FirstDay(MonthOf(t)) + DaysIn(MonthOf(t)) - 1) :
        OutOfBounds(Midnight(d))

\* C16: a month/year quick-jump option whose target month has every day
\* disabled by the bounds is not selectable: a quick-jump never moves a
\* view cursor to a month lying entirely before min or after max.
\* The options test the ordering of the calendars only, never the bounds.
C16_JumpRespectsBounds ==
    [][\A calendarIndex \in {0, 1}, newDate \in MonthStarts :
          (last'.op = "Jump" /\ MonthOutOfBounds(newDate)
             /\ handleMonthYearChange(calendarIndex, newDate))
          => (~last'.ok /\ UNCHANGED views)]_vars

\* ---------------------------------------------------------------- C17
\* the presets whose produced value equals the pending selection by
\* calendar day
MatchingPresets ==
    IF singleDatePicker
    THEN { i \in 1 .. Len(presetDates) :
             /\ tempRange.startDate # NoDate
             /\ DayOf(presetDates[i]) = DayOf(tempRange.startDate) }
    ELSE { i \in 1 .. Len(presetRanges) :
             /\ Complete(tempRange)
             /\ Complete(presetRanges[i])
             /\ ByDay(presetRanges[i]) = ByDay(tempRange) }

\* C17: matchedPresetIndex is the smallest index whose preset produces a
\* value equal to the pending selection by calendar day, and none (0)
\* when no preset matches, when a Single pending has no day or when a
\* Range pending lacks an endpoint.
C17_SmallestMatchingPreset ==
    IF MatchingPresets = {}
    THEN matchedPresetIndex = 0
    ELSE /\ matchedPresetIndex \in MatchingPresets
         /\ \A j \in MatchingPresets : matchedPresetIndex <= j

\* day clicks have built a range that two presets produce
C17_Witness ==
    /\ RangeMode
    /\ last = Event("DayClick", TRUE)
    /\ Cardinality(MatchingPresets) >= 2
    /\ matchedPresetIndex = 2

\* ---------------------------------------------------------------- C18
\* the selection a preset produces, and the presets producing the same
\* complete selection by calendar day
Produced(i) ==
    IF singleDatePicker THEN DateRange(presetDates[i], presetDates[i])
    ELSE presetRanges[i]
NumPresets == IF singleDatePicker THEN Len(presetDates) ELSE Len(presetRanges)
SameProduct(i) ==
    { j \in 1 .. NumPresets :
        /\ Complete(Produced(i))
        /\ Complete(Produced(j))
        /\ ByDay(Produced(j)) = ByDay(Produced(i)) }
AppliesPreset(i) ==
    IF singleDatePicker THEN applyPresetDate(i) ELSE applyPreset(i)

\* C18 (as stated): applying a preset leaves its produced selection
\* pending, whatever was pending (so a second application changes
\* nothing), and then matchedPresetIndex is the index of that preset.
\* An earlier preset producing the same days takes the match.
C18_AsStated ==
    [][\A i \in 1 .. NumPresets :
          (last'.op = "ApplyPreset" /\ AppliesPreset(i))
          => /\ tempRange' = Produced(i)
             /\ matchedPresetIndex' = i]_vars

\* C18 (amended): applying a preset leaves its produced selection
\* pending, whatever was pending (so applying it twice in a row leaves
\* the same pending selection as once), and after each application
\* matchedPresetIndex is the smallest index of a preset producing the
\* same selection by calendar day, or none when the produced range lacks
\* an endpoint.
C18_PresetIdempotentFirstMatch ==
    [][\A i \in 1 .. NumPresets :
          (last'.op = "ApplyPreset" /\ AppliesPreset(i))
          => /\ tempRange' = Produced(i)
             /\ matchedPresetIndex' =
                  IF SameProduct(i) = {} THEN 0
                  ELSE CHOOSE j \in SameProduct(i) :
                         \A k \in SameProduct(i) : j <= k]_vars

\* a preset was applied that is not the first to produce its days
C18_Witness ==
    /\ last = Event("ApplyPreset", TRUE)
    /\ RangeMode
    /\ tempRange = presetRanges[3]
    /\ matchedPresetIndex = 2

\* ---------------------------------------------------------------- C19
\* C19: applying a preset sets the pending selection to exactly the
\* preset's produced selection, whatever the click phase, and in the same
\* step re-centres the view cursors on it (left cursor = month of the
\* produced start), in Single and in Range mode, with autoApply on or off.
\* In Range mode with autoApply off the cursors stay where they are.
C19_PresetRecenters ==
    [][\A i \in 1 .. NumPresets :
          (last'.op = "ApplyPreset" /\ AppliesPreset(i))
          => /\ tempRange' = Produced(i)
             /\ Produced(i).startDate # NoDate
                => MonthOf(viewDateStart') = MonthOf(Produced(i).startDate)]_vars

\* ---------------------------------------------------------------- C20
\* C20: whenever the popover opens or closes, or the caller pushes a new
\* committed value, the pending selection becomes equal to the committed
\* selection: an uncommitted pending selection is discarded, a free-click
\* range with only its start chosen included.
C20_PendingReseeded ==
    [][(open' # open \/ last'.op = "CallerPush") => tempRange' = value']_vars

\* the popover was closed with autoApply off and pending is the committed
\* range again
C20_Witness ==
    /\ ~autoApply /\ FreeClick
    /\ last = Event("OutsideClose", TRUE)
    /\ ~open
    /\ Complete(value)
    /\ tempRange = value

\* ---------------------------------------------------------------- C21
\* C21 (as stated): the hover day is none immediately after the pointer
\* leaves a day cell and immediately after every accepted day click of
\* Range free-click mode, the click that sets the start and the click
\* that sets the end.  The click that sets the end leaves the hover day.
C21_AsStated ==
    [][(\/ last'.op = "MouseLeave"
        \/ (FreeClick /\ last' = Event("DayClick", TRUE)))
          => hoverDate' = NoDate]_vars

\* C21 (amended): the hover day is none immediately after the pointer
\* leaves a day cell and immediately after the accepted free-click day
\* click that sets the start; the click that sets the end leaves the
\* hover day as it was.
C21_HoverClearedOnLeaveAndStart ==
    [][/\ last'.op = "MouseLeave" => hoverDate' = NoDate
       /\ (FreeClick /\ last' = Event("DayClick", TRUE))
          => IF tempRange.startDate = NoDate \/ Complete(tempRange)
             THEN hoverDate' = NoDate
             ELSE hoverDate' = hoverDate]_vars

\* the click that set the end was made with a day hovered
C21_Witness ==
    /\ FreeClick
    /\ last = Event("DayClick", TRUE)
    /\ Complete(tempRange)
    /\ hoverDate # NoDate

\* ---------------------------------------------------------------- C22
\* this step is an accepted day click of Range mode that leaves both
\* endpoints of the pending selection set, or a preset application
CompletesOrPreset ==
    \/ (RangeMode /\ last' = Event("DayClick", TRUE) /\ Complete(tempRange'))
    \/ last'.op = "ApplyPreset"

LeftPage == last'.ok /\ (\/ (last'.op = "Prev" /\ handlePrev(0))
                         \/ (last'.op = "Next" /\ handleNext(0)))
\* this step is an accepted quick-jump of the left calendar to newDate
LeftJump(newDate) == last' = Event("Jump", TRUE) /\ handleMonthYearChange(0, newDate)

\* C23 (as stated): under the Linked policy, immediately after any
\* accepted navigation of the left calendar, arrow page or quick-jump,
\* the right cursor's month is the left cursor's month plus one.
\* A quick-jump moves the left cursor alone.
C23_AsStated ==
    [][(FreeClick /\ (LeftPage \/ \E newDate \in MonthStarts : LeftJump(newDate)))
          => MonthOf(viewDateEnd') = MonthOf(viewDateStart') + 1]_vars

\* C23 (amended): under the Linked policy, immediately after an accepted
\* arrow page of the left calendar the right cursor's month is the left
\* cursor's month plus one; an accepted quick-jump of the left calendar
\* puts the left cursor on the target month, before the right cursor's
\* month, and leaves the right cursor where it was.
C23_LeftPagePinsJumpDoesNot ==
    [][/\ (FreeClick /\ LeftPage)
          => MonthOf(viewDateEnd') = MonthOf(viewDateStart') + 1
       /\ \A newDate \in MonthStarts :
            (FreeClick /\ LeftJump(newDate))
            => /\ viewDateStart' = newDate
               /\ viewDateEnd' = viewDateEnd
               /\ MonthOf(newDate) < MonthOf(viewDateEnd)]_vars

\* after a quick-jump the left calendar shows the first month and the
\* right calendar the last one
C23_Witness ==
    /\ FreeClick
    /\ last = Event("Jump", TRUE)
    /\ MonthOf(viewDateStart) = 0
    /\ MonthOf(viewDateEnd) = NumMonths

\* ---------------------------------------------------------------- C24
\* C24: in Single mode, whatever separateCalendars is, an arrow page or a
\* quick-jump of the single cursor is never refused because of the
\* pending selection or of another cursor: only the bounds refuse it.
\* With separateCalendars set the arrows test the pending end and start.
C24_SingleNavOnlyBounds ==
    [][/\ \A step \in {0 - 1, 1} :
            (/\ singleDatePicker
             /\ last'.op = (IF step = 1 THEN "Next" ELSE "Prev")
             /\ IF step = 1 THEN handleNext(0) ELSE handlePrev(0)
             /\ boundsAllowPage(0, step))
            => last'.ok
       /\ (singleDatePicker /\ last'.op = "Jump") => last'.ok]_vars

\* ---------------------------------------------------------------- bounds
\* auto-committing instances of every mode under every pair of bounds
BoundChoices == {NoDate} \cup (0 .. (NumDays * TicksPerDay - 1))

InitBounds ==
    /\ \E m \in Modes :
        /\ singleDatePicker = m[1]
        /\ separateCalendars = m[2]
    /\ autoApply = TRUE
    /\ closeOnSelect = FALSE
    /\ minDate \in BoundChoices
    /\ maxDate \in BoundChoices
    /\ presetRanges = GoodPresetRanges
    /\ presetDates = SinglePresetDates
    /\ value = EmptyRange
    /\ tempRange = value
    /\ tempIsValue = TRUE
    /\ viewDateStart = recenterStart(value, startOfToday)
    /\ viewDateEnd = recenterEnd(value, addMonths(startOfToday, 1))
    /\ hoverDate = NoDate
    /\ open = FALSE
    /\ last = Event("Init", TRUE)

NextBounds ==
    \/ toggleOpen
    \/ \E day \in MidnightDays, calendarIndex \in {0, 1} :
          handleDayClick(day, calendarIndex)
    \/ \E calendarIndex \in {0, 1} : handlePrev(calendarIndex)
    \/ \E calendarIndex \in {0, 1} : handleNext(calendarIndex)

SpecBounds == InitBounds /\ [][NextBounds]_vars

\* ---------------------------------------------------------------- C25
\* the bounds (lo, hi) are the bounds of the instance widened or removed
Widened(lo, hi) ==
    /\ lo = NoDate \/ (minDate # NoDate /\ lo <= minDate)
    /\ hi = NoDate \/ (maxDate # NoDate /\ hi >= maxDate)

\* C25: for every day and all bounds (min, max) and (min', max') with
\* min' absent or min' <= min and max' absent or max' >= max, a day
\* enabled under (min, max) is enabled under (min', max').
C25_BoundsMonotone ==
    \A day \in MidnightDays, lo \in BoundChoices, hi \in BoundChoices :
        (Widened(lo, hi) /\ ~disableDateFor(day, minDate, maxDate))
        => ~disableDateFor(day, lo, hi)

\* a day enabled under two set bounds that disable other days was clicked
C25_Witness ==
    /\ minDate # NoDate /\ maxDate # NoDate
    /\ last = Event("DayClick", TRUE)
    /\ ~disableDateFor(tempRange.startDate, minDate, maxDate)
    /\ \E day \in MidnightDays : disableDateFor(day, minDate, maxDate)

\* ---------------------------------------------------------------- C26
DayOfMonth(t) == DayOf(t) - FirstDay(MonthOf(t))
Cursors == {viewDateStart, viewDateEnd}

\* C26 as stated: every view cursor is the first day of its displayed
\* month in every reachable state, the initial one included.
C26_AsStated == \A v \in Cursors : v = startOfMonth(v)

\* C26: every view cursor is the midnight of a day of its displayed month;
\* it is the first day of that month whenever the committed selection has
\* a start, and otherwise on today's day of the month or an earlier one
\* (the initial cursors are today and today a month on, not normalised).
C26_CursorsNormalisedOnceCommitted ==
    \A v \in Cursors :
        /\ v = startOfDay(v)
        /\ MonthOf(v) \in ViewMonths
        /\ v # startOfMonth(v) =>
            /\ value.startDate = NoDate
            /\ DayOfMonth(v) <= DayOfMonth(startOfToday)

\* a day was picked into the draft while the left cursor is still today
C26_Witness ==
    /\ last = Event("DayClick", TRUE)
    /\ tempRange.startDate # NoDate
    /\ viewDateStart # startOfMonth(viewDateStart)

\* ---------------------------------------------------------------- C27
\* C27: in Range per-calendar mode a day click never changes either view
\* cursor, with auto-commit on or off.
C27_PerCalendarClickKeepsViews ==
    [][(PerCalendar /\ last'.op = "DayClick") => UNCHANGED views]_vars

\* ---------------------------------------------------------------- C28
\* the month step months from the month a calendar shows, by its first day
TargetMonth(calendarIndex, step) ==
    Midnight(FirstDay(MonthOf(viewDate(calendarIndex)) + step))
\* every day of the month of a Date is before min / after max
MonthBeforeMin(t) == minDate # NoDate /\ DayOf(endOfMonth(t)) < DayOf(minDate)
MonthAfterMax(t) == maxDate # NoDate /\ DayOf(startOfMonth(t)) > DayOf(maxDate)
\* an arrow of a calendar whose target month lies past the bound of its
\* direction is refused and moves no cursor
PageRefusedByBounds ==
    \A calendarIndex \in {0, 1} :
        /\ (/\ last'.op = "Prev" /\ handlePrev(calendarIndex)
            /\ MonthBeforeMin(TargetMonth(calendarIndex, 0 - 1)))
           => (~last'.ok /\ UNCHANGED views)
        /\ (/\ last'.op = "Next" /\ handleNext(calendarIndex)
            /\ MonthAfterMax(TargetMonth(calendarIndex, 1)))
           => (~last'.ok /\ UNCHANGED views)
\* the paged cursor after an accepted arrow of a calendar
PagedOnto(calendarIndex, t) ==
    /\ last'.ok
    /\ \/ (last'.op = "Prev" /\ handlePrev(calendarIndex))
       \/ (last'.op = "Next" /\ handleNext(calendarIndex))
    /\ t = (IF calendarIndex = 0 THEN viewDateStart' ELSE viewDateEnd')

\* C28 as stated: a backward page is refused when the last day of the
\* target month is before min and a forward page when its first day is
\* after max, all cursors unchanged; hence no arrow page moves the paged
\* cursor onto a month in which every day is disabled by the bounds.
C28_AsStated ==
    [][/\ PageRefusedByBounds
       /\ \A calendarIndex \in {0, 1}, t \in MidnightDays \cup MonthStarts :
            PagedOnto(calendarIndex, t) => ~MonthOutOfBounds(t)]_vars

\* C28: a backward page is refused when the last day of the target month
\* is before min and a forward page when its first day is after max, all
\* cursors unchanged; hence no backward page moves the paged cursor onto a
\* month entirely before min and no forward page onto a month entirely
\* after max. (A page towards the enabled days from a month past the
\* opposite bound is accepted, whatever month it lands on.)
C28_PageRefusedInItsDirection ==
    [][/\ PageRefusedByBounds
       /\ \A calendarIndex \in {0, 1}, t \in MidnightDays \cup MonthStarts :
            PagedOnto(calendarIndex, t) =>
                /\ last'.op = "Prev" => ~MonthBeforeMin(t)
                /\ last'.op = "Next" => ~MonthAfterMax(t)]_vars

\* a backward page was refused by min with the forward one open, in Range mode
C28_Witness ==
    /\ RangeMode
    /\ last = Event("Prev", FALSE)
    /\ \E calendarIndex \in {0, 1} :
        /\ MonthBeforeMin(TargetMonth(calendarIndex, 0 - 1))
        /\ ~MonthAfterMax(TargetMonth(calendarIndex, 1))

\* ---------------------------------------------------------------- C29
\* C29: the hover preview is none in every reachable state under Single
\* mode and under Range per-calendar mode; only Range free-click mode
\* ever sets it.
C29_HoverOnlyInFreeClick == ~FreeClick => hoverDate = NoDate

\* the pointer entered a day cell of a per-calendar instance
C29_Witness ==
    /\ PerCalendar
    /\ last = Event("MouseEnter", TRUE)
    /\ hoverDate = NoDate

\* ---------------------------------------------------------------- C30
NavigationOps == {"Prev", "Next", "Jump"}
PointerOps == {"MouseEnter", "MouseLeave"}

\* C30: arrow pages, month/year quick-jumps and pointer movement over day
\* cells never change the pending or the committed selection, accepted or
\* refused; a refused navigation changes no view cursor either.
C30_NavigationKeepsSelections ==
    [][/\ last'.op \in NavigationOps \cup PointerOps
            => (tempRange' = tempRange /\ value' = value)
       /\ (last'.op \in NavigationOps /\ ~last'.ok) => UNCHANGED views]_vars

\* a navigation was refused while the draft differs from the committed value
C30_Witness ==
    /\ last.op \in NavigationOps
    /\ ~last.ok
    /\ tempRange.startDate # NoDate
    /\ tempRange # value

\* ---------------------------------------------------------------- C31
\* every set endpoint of a range is a day inside the bounds
EndpointsEnabled(r) ==
    /\ r.startDate # NoDate => ~OutOfBounds(r.startDate)
    /\ r.endDate # NoDate => ~OutOfBounds(r.endDate)

\* C31: if every caller-pushed committed selection lies within the
\* bounds, every set endpoint of the pending and of the committed
\* selection is an enabled day in every reachable state: no step other
\* than such a push takes a state with enabled endpoints to one without.
\* A preset's range() / date() is stored without a test against the bounds.
C31_EndpointsStayEnabled ==
    [][(/\ EndpointsEnabled(tempRange) /\ EndpointsEnabled(value)
        /\ last'.op = "CallerPush" => EndpointsEnabled(value'))
       => (EndpointsEnabled(tempRange') /\ EndpointsEnabled(value'))]_vars

\* ---------------------------------------------------------------- C32
\* both endpoints of a range are set, or neither is
Whole(r) == (r.startDate = NoDate) <=> (r.endDate = NoDate)
PresetsComplete == \A i \in 1 .. Len(presetRanges) : Complete(presetRanges[i])

\* C32: in Range mode, from a committed selection that is empty or
\* complete (the caller pushing such selections only) and with presets
\* that produce complete ranges, every value handed to the caller has both
\* endpoints set or both unset, with auto-commit on or off.
\* Apply hands over the draft as it is, one endpoint set or two.
C32_CommittedNeverHalf ==
    [][(/\ RangeMode /\ PresetsComplete
        /\ Whole(value)
        /\ last'.op = "CallerPush" => Whole(value'))
       => Whole(value')]_vars

\* ---------------------------------------------------------------- C33
\* C33: with no bounds, under the Linked and the Independent policies, in
\* every reachable state each of the two calendars has at least one of
\* page-backward and page-forward accepted.
\* A left calendar showing a month after the month of the pending end (a
\* right one showing a month before that of the pending start) has both
\* arrows refused.
C33_NoCalendarStuck ==
    (RangeMode /\ Unbounded) =>
        \A calendarIndex \in {0, 1} :
            ~pageRefused(calendarIndex, 0 - 1) \/ ~pageRefused(calendarIndex, 1)
====
